---- MODULE Spec2Model ----
(***************************************************************************)
(* A state-machine model of ForceGraphEngine (src/lib/ForceGraphEngine.ts) *)
(* together with the host pieces it talks to: the browser's animation      *)
(* frame queue, the event listeners, and the onNodeClick callback.         *)
(*                                                                         *)
(* JavaScript numbers are modelled in fixed point: a length, a position or *)
(* a velocity v is the integer v * Scale (hundredths of a pixel), the zoom *)
(* factor k is the integer k * KScale (thousandths).  Every product and    *)
(* quotient is computed as the code writes it and then truncated towards   *)
(* zero to that resolution.                                                *)
(*                                                                         *)
(* JavaScript object identity (the === tests against draggedNode and       *)
(* hoveredNode) is modelled by the shape of a reference: a reference is    *)
(* null, or points to the object stored in this.nodes under some id        *)
(* ("ref"), or points to an object that a later updateData dropped from    *)
(* this.nodes ("detached").  this.nodes holds one object per key, and      *)
(* every updateData allocates fresh objects, so these shapes tell apart    *)
(* exactly the objects the code can tell apart.                            *)
(***************************************************************************)
EXTENDS Integers, Sequences, FiniteSets, TLC

VARIABLES
    phase,            \* "new" | "live" | "failed": the constructor's outcome
    listeners,        \* the event types a listener of the engine is bound to
    options,          \* this.options: width, height, onNodeClick (present?)
    canvas,           \* canvas.width, canvas.height, canvas.style.cursor
    nodes,            \* this.nodes: Map<string, EngineNode> in insertion order
    links,            \* this.links
    animationFrameId, \* this.animationFrameId (NoFrame models null)
    transform,        \* this.transform: x, y (pan), k (scale)
    draggedNode,      \* this.draggedNode (a reference)
    hoveredNode,      \* this.hoveredNode (a reference)
    isDraggingNode,   \* this.isDraggingNode
    isPanning,        \* this.isPanning
    lastMousePos,     \* this.lastMousePos (screen)
    clickStartPos,    \* this.clickStartPos (screen)
    rafQueue,         \* browser: handles of the frame callbacks still pending
    rafNext,          \* browser: the handle requestAnimationFrame returns next
    drawn,            \* what the last draw() put on the canvas
    clicked,          \* host: the nodes onNodeClick was invoked with, in order
    pointer,          \* host: the last pointer-down not yet followed by an up, and
                      \* the id of the node under it ("" for none)
    lastOp,           \* host: the call or event handled last, with its arguments
                      \* and, for start and stop, whether the loop was running,
                      \* for mouseup and touchend, the isDraggingNode and
                      \* isPanning it found
    calls             \* host: how many calls and events the engine has handled

vars == << phase, listeners, options, canvas, nodes, links, animationFrameId, transform,
           draggedNode, hoveredNode, isDraggingNode, isPanning, lastMousePos,
           clickStartPos, rafQueue, rafNext, drawn, clicked, pointer, lastOp,
           calls >>

\* The engine's own fields (what the class declares) and the canvas it owns.
engineVars == << options, canvas, nodes, links, animationFrameId, transform,
                 draggedNode, hoveredNode, isDraggingNode, isPanning,
                 lastMousePos, clickStartPos >>

-----------------------------------------------------------------------------
(* Bounds of the exploration *)

\* calls, events and frame callbacks the engine handles after construction
MaxCalls == 4

-----------------------------------------------------------------------------
(* Fixed-point arithmetic *)

Scale == 100
KScale == 1000

Abs(a) == IF a < 0 THEN -a ELSE a
Max(a, b) == IF a >= b THEN a ELSE b
Min(a, b) == IF a <= b THEN a ELSE b

\* a / b truncated towards zero (b # 0)
Quot(a, b) ==
    IF (a >= 0) = (b > 0) THEN Abs(a) \div Abs(b) ELSE -(Abs(a) \div Abs(b))

\* pixels to fixed point
Px(n) == n * Scale

FMul(a, b) == Quot(a * b, Scale)
FDiv(a, b) == Quot(a * Scale, b)

RECURSIVE SqrtSearch(_, _, _)
SqrtSearch(n, lo, hi) ==
    IF lo >= hi THEN lo
    ELSE LET mid == (lo + hi + 1) \div 2
         IN  IF mid * mid <= n THEN SqrtSearch(n, mid, hi)
                               ELSE SqrtSearch(n, lo, mid - 1)

\* floor(sqrt(n)) for 0 <= n < 2^31
ISqrt(n) == SqrtSearch(n, 0, 46340)

\* Math.sqrt of a fixed-point value
FSqrt(a) == ISqrt(a * Scale)

\* Math.sqrt(a*a + b*b) of two fixed-point values; large arguments are
\* squared at pixel resolution so that the sum stays within the integers
Hypot(a, b) ==
    IF Max(Abs(a), Abs(b)) <= 30000
    THEN ISqrt(a * a + b * b)
    ELSE Scale * ISqrt(Quot(a, Scale) * Quot(a, Scale)
                       + Quot(b, Scale) * Quot(b, Scale))

-----------------------------------------------------------------------------
(* Values *)

\* null for animationFrameId; like null it is falsy
NoFrame == 0

\* an absent optional field of a GraphNode (undefined), and a present one
Undef == << >>
Some(v) == << v >>

\* references to EngineNode objects
NullRef == [tag |-> "null", id |-> "", obj |-> << >>]
LiveRef(id) == [tag |-> "ref", id |-> id, obj |-> << >>]
Detached(node) == [tag |-> "detached", id |-> node.id, obj |-> << node >>]

Pos(x, y) == [x |-> x, y |-> y]

\* no pointer is down
NoGesture == [down |-> FALSE, hit |-> "", pos |-> Pos(0, 0)]

\* the values Math.random() is sampled at: 0 and 0.5
RandSet == {0, Scale \div 2}
\* one sample for a draw on the x axis and one for a draw on the y axis
RandPairs == {<< r, r >> : r \in RandSet}

-----------------------------------------------------------------------------
(* this.nodes as an insertion-ordered map *)

Ids(ns) == {ns[i].id : i \in 1..Len(ns)}

Has(ns, id) == id \in Ids(ns)

IndexOf(ns, id) == CHOOSE i \in 1..Len(ns) : ns[i].id = id

\* Map.get
Get(ns, id) == ns[IndexOf(ns, id)]

\* Map.set: a key already present keeps its place in the iteration order
MapSet(ns, node) ==
    IF Has(ns, node.id)
    THEN [ns EXCEPT ![IndexOf(ns, node.id)] = node]
    ELSE Append(ns, node)

-----------------------------------------------------------------------------
(* updateData *)

Radius(weight) == Px(15 + weight * 3)

\* hsl(hue, sat%, light%)
generateColor(weight) ==
    << "hsl", 200 + ((weight * 10) % 60), 70 + ((weight * 2) % 30),
       50 + ((weight * 2) % 20) >>

\* MergeNode with a slip: a persisting node takes the position the call
\* supplies
MergeNodeTakesPosition(old, rawNode, opts, rnd) ==
    IF Has(old, rawNode.id)
    THEN [Get(old, rawNode.id) EXCEPT
            !.weight = rawNode.weight,
            !.radius = Radius(rawNode.weight),
            !.x = IF rawNode.x = Undef THEN @ ELSE rawNode.x[1],
            !.y = IF rawNode.y = Undef THEN @ ELSE rawNode.y[1]]
    ELSE [id     |-> rawNode.id,
          weight |-> rawNode.weight,
          x      |-> IF rawNode.x = Undef
                     THEN Quot(opts.width, 2) + FMul(rnd[1] - Scale \div 2, Px(50))
                     ELSE rawNode.x[1],
          y      |-> IF rawNode.y = Undef
                     THEN Quot(opts.height, 2) + FMul(rnd[2] - Scale \div 2, Px(50))
                     ELSE rawNode.y[1],
          vx     |-> 0,
          vy     |-> 0,
          radius |-> Radius(rawNode.weight),
          color  |-> generateColor(rawNode.weight)]

\* the object built for one incoming node (lines 82-101); rnd is the pair of
\* Math.random() samples used when the node brings no position
MergeNode(old, rawNode, opts, rnd) ==
    IF Has(old, rawNode.id)
    THEN [Get(old, rawNode.id) EXCEPT !.weight = rawNode.weight,
                                      !.radius = Radius(rawNode.weight)]
    ELSE [id     |-> rawNode.id,
          weight |-> rawNode.weight,
          x      |-> IF rawNode.x = Undef
                     THEN Quot(opts.width, 2) + FMul(rnd[1] - Scale \div 2, Px(50))
                     ELSE rawNode.x[1],
          y      |-> IF rawNode.y = Undef
                     THEN Quot(opts.height, 2) + FMul(rnd[2] - Scale \div 2, Px(50))
                     ELSE rawNode.y[1],
          vx     |-> 0,
          vy     |-> 0,
          radius |-> Radius(rawNode.weight),
          color  |-> generateColor(rawNode.weight)]

\* MergeNodes with a slip: the merge updates the current map in place, so
\* nodes the call leaves out stay
RECURSIVE MergeNodesInPlace(_, _, _, _, _)
MergeNodesInPlace(old, incoming, opts, rnd, newNodesMap) ==
    IF incoming = << >> THEN (IF newNodesMap = << >> THEN old ELSE newNodesMap)
    ELSE MergeNodesInPlace(old, Tail(incoming), opts, rnd,
             MapSet(IF newNodesMap = << >> THEN old ELSE newNodesMap,
                    MergeNode(old, Head(incoming), opts, rnd)))

RECURSIVE MergeNodes(_, _, _, _, _)
MergeNodes(old, incoming, opts, rnd, newNodesMap) ==
    IF incoming = << >> THEN newNodesMap
    ELSE MergeNodes(old, Tail(incoming), opts, rnd,
                    MapSet(newNodesMap, MergeNode(old, Head(incoming), opts, rnd)))

\* draggedNode after this.nodes was replaced: the object it points to is no
\* longer the one stored under its id, and keeps the fields it had
Orphan(ref, old) ==
    IF ref.tag = "ref" THEN Detached(Get(old, ref.id)) ELSE ref

\* hoveredNode after this.nodes was replaced; the code only ever compares
\* this reference, so the fields of the object it points to are not kept
OrphanHover(ref) ==
    IF ref.tag = "ref" THEN [tag |-> "detached", id |-> ref.id, obj |-> << >>]
    ELSE ref

-----------------------------------------------------------------------------
(* Camera *)

screenToWorld(sx, sy, t) ==
    Pos(Quot((sx - t.x) * KScale, t.k), Quot((sy - t.y) * KScale, t.k))

\* ZoomTo with a slip: the upper clamp is missing
ZoomToNoCeiling(k, deltaY) ==
    LET factor == IF deltaY > 0 THEN KScale - KScale \div 10
                                ELSE KScale + KScale \div 10
    IN  Max(KScale \div 10, Quot(k * factor, KScale))

\* Math.max(0.1, Math.min(5, k * (1 + delta))), delta = -0.1 for deltaY > 0
\* and 0.1 otherwise
ZoomTo(k, deltaY) ==
    LET factor == IF deltaY > 0 THEN KScale - KScale \div 10
                                ELSE KScale + KScale \div 10
    IN  Max(KScale \div 10, Min(5 * KScale, Quot(k * factor, KScale)))

\* WheelTransform with a slip: the pan is computed from the scale before
\* it is clamped
WheelTransformUnclampedPan(t, pos, deltaY) ==
    LET worldBefore == screenToWorld(pos.x, pos.y, t)
        factor == IF deltaY > 0 THEN KScale - KScale \div 10
                                ELSE KScale + KScale \div 10
        rawK == Quot(t.k * factor, KScale)
    IN  [x |-> pos.x - Quot(worldBefore.x * rawK, KScale),
         y |-> pos.y - Quot(worldBefore.y * rawK, KScale),
         k |-> ZoomTo(t.k, deltaY)]

\* the transform onWheel leaves behind (lines 141-152)
WheelTransform(t, pos, deltaY) ==
    LET worldBefore == screenToWorld(pos.x, pos.y, t)
        newK == ZoomTo(t.k, deltaY)
    IN  [x |-> pos.x - Quot(worldBefore.x * newK, KScale),
         y |-> pos.y - Quot(worldBefore.y * newK, KScale),
         k |-> newK]

-----------------------------------------------------------------------------
(* Hit test *)

Hits(node, worldX, worldY) ==
    LET dx == worldX - node.x
        dy == worldY - node.y
    IN  FMul(dx, dx) + FMul(dy, dy) <= FMul(node.radius, node.radius)

\* getNodeAt: the id of the last node in iteration order whose disk holds
\* the point, "" for undefined
RECURSIVE NodeAtFrom(_, _, _, _)
NodeAtFrom(ns, i, worldX, worldY) ==
    IF i = 0 THEN ""
    ELSE IF Hits(ns[i], worldX, worldY) THEN ns[i].id
    ELSE NodeAtFrom(ns, i - 1, worldX, worldY)

getNodeAt(ns, worldX, worldY) == NodeAtFrom(ns, Len(ns), worldX, worldY)

-----------------------------------------------------------------------------
(* Physics: calculateForces, integrate, resolveCollisions *)

REPULSION == 800
SPRING_LENGTH == 120
\* 0.05, in hundredths
SPRING_STRENGTH == 5
\* 0.85, in hundredths
DAMPING == 85
\* 0.0005, in ten-thousandths
CENTER_PULL == 5
MAX_VELOCITY == 15

\* node === this.draggedNode
IsDragged(node, dragged) == dragged.tag = "ref" /\ dragged.id = node.id

\* what the inner loop body (lines 281-297) adds to <<fx, fy>> for one other
\* node
Repulse(node, other, rnd) ==
    LET dx == node.x - other.x
        dy == node.y - other.y
        d2 == FMul(dx, dx) + FMul(dy, dy)
        distSq == IF d2 = 0 THEN Scale \div 10 ELSE d2
        dist == FSqrt(distSq)
        force == FDiv(Quot(Px(REPULSION) * (node.weight + other.weight), 2), distSq)
    IN  << (IF d2 = 0 THEN rnd[1] ELSE 0) + FMul(FDiv(dx, dist), force),
           (IF d2 = 0 THEN rnd[2] ELSE 0) + FMul(FDiv(dy, dist), force) >>

RECURSIVE RepulseAll(_, _, _, _, _)
RepulseAll(ns, i, j, rnd, acc) ==
    IF j > Len(ns) THEN acc
    ELSE IF j = i THEN RepulseAll(ns, i, j + 1, rnd, acc)
    ELSE LET f == Repulse(ns[i], ns[j], rnd)
         IN  RepulseAll(ns, i, j + 1, rnd, << acc[1] + f[1], acc[2] + f[2] >>)

\* the first loop of calculateForces (lines 267-302): gravity and repulsion
\* change only velocities, so every node sees the positions the frame
\* started with
GravityAndRepulsion(ns, dragged, opts, rnd) ==
    [i \in 1..Len(ns) |->
        IF IsDragged(ns[i], dragged) THEN ns[i]
        ELSE LET centerX == Quot(opts.width, 2)
                 centerY == Quot(opts.height, 2)
                 gravity == << Quot((centerX - ns[i].x) * CENTER_PULL, 10000),
                               Quot((centerY - ns[i].y) * CENTER_PULL, 10000) >>
                 f == RepulseAll(ns, i, 1, rnd, gravity)
             IN  [ns[i] EXCEPT !.vx = @ + f[1], !.vy = @ + f[2]]]

\* Spring with a slip: only the source is looked up, and a missing target
\* is taken to sit at the world origin
SpringToOrigin(ns, link, dragged) ==
    IF ~Has(ns, link.source) THEN ns
    ELSE LET s == IndexOf(ns, link.source)
             hasTarget == Has(ns, link.target)
             tx == IF hasTarget THEN Get(ns, link.target).x ELSE 0
             ty == IF hasTarget THEN Get(ns, link.target).y ELSE 0
             dx == tx - ns[s].x
             dy == ty - ns[s].y
             dist == FSqrt(FMul(dx, dx) + FMul(dy, dy))
         IN  IF dist = 0 THEN ns
             ELSE LET force == Quot((dist - Px(SPRING_LENGTH)) * SPRING_STRENGTH, 100)
                      fx == FMul(FDiv(dx, dist), force)
                      fy == FMul(FDiv(dy, dist), force)
                      ns1 == IF IsDragged(ns[s], dragged) THEN ns
                             ELSE [ns EXCEPT ![s].vx = @ + fx, ![s].vy = @ + fy]
                  IN  IF ~hasTarget \/ IsDragged(Get(ns1, link.target), dragged)
                      THEN ns1
                      ELSE [ns1 EXCEPT ![IndexOf(ns, link.target)].vx = @ - fx,
                                       ![IndexOf(ns, link.target)].vy = @ - fy]

\* one link of the forEach at lines 305-332
Spring(ns, link, dragged) ==
    IF ~Has(ns, link.source) \/ ~Has(ns, link.target) THEN ns
    ELSE LET s == IndexOf(ns, link.source)
             t == IndexOf(ns, link.target)
             dx == ns[t].x - ns[s].x
             dy == ns[t].y - ns[s].y
             dist == FSqrt(FMul(dx, dx) + FMul(dy, dy))
         IN  IF dist = 0 THEN ns
             ELSE LET force == Quot((dist - Px(SPRING_LENGTH)) * SPRING_STRENGTH, 100)
                      fx == FMul(FDiv(dx, dist), force)
                      fy == FMul(FDiv(dy, dist), force)
                      ns1 == IF IsDragged(ns[s], dragged) THEN ns
                             ELSE [ns EXCEPT ![s].vx = @ + fx, ![s].vy = @ + fy]
                  IN  IF IsDragged(ns1[t], dragged) THEN ns1
                      ELSE [ns1 EXCEPT ![t].vx = @ - fx, ![t].vy = @ - fy]

RECURSIVE Springs(_, _, _)
Springs(ns, ls, dragged) ==
    IF ls = << >> THEN ns
    ELSE Springs(Spring(ns, Head(ls), dragged), Tail(ls), dragged)

calculateForces(ns, ls, dragged, opts, rnd) ==
    Springs(GravityAndRepulsion(ns, dragged, opts, rnd), ls, dragged)

\* LimitVelocity with a slip: each component is limited on its own
LimitVelocityPerAxis(node) ==
    [node EXCEPT !.vx = Max(-Px(MAX_VELOCITY), Min(Px(MAX_VELOCITY), @)),
                 !.vy = Max(-Px(MAX_VELOCITY), Min(Px(MAX_VELOCITY), @))]

\* the velocity limit of lines 383-387
LimitVelocity(node) ==
    LET vMag == Hypot(node.vx, node.vy)
    IN  IF vMag > Px(MAX_VELOCITY)
        THEN [node EXCEPT !.vx = FMul(FDiv(node.vx, vMag), Px(MAX_VELOCITY)),
                          !.vy = FMul(FDiv(node.vy, vMag), Px(MAX_VELOCITY))]
        ELSE node

\* the forEach body of integrate (lines 380-394)
Advance(node, dragged) ==
    IF IsDragged(node, dragged) THEN node
    ELSE LET n == LimitVelocity(node)
         IN  [n EXCEPT !.x = @ + n.vx,
                       !.y = @ + n.vy,
                       !.vx = Quot(n.vx * DAMPING, 100),
                       !.vy = Quot(n.vy * DAMPING, 100)]

\* one pair of resolveCollisions (lines 343-369)
Separate(ns, i, j, dragged, rnd) ==
    LET n1 == ns[i]
        n2 == ns[j]
        dx == n2.x - n1.x
        dy == n2.y - n1.y
        distSq == FMul(dx, dx) + FMul(dy, dy)
        minDist == n1.radius + n2.radius + Px(2)
    IN  IF distSq < FMul(minDist, minDist)
        THEN LET dist == FSqrt(distSq)
                 tx == IF dist = 0 THEN rnd[1] ELSE FDiv(dx, dist)
                 ty == IF dist = 0 THEN rnd[2] ELSE FDiv(dy, dist)
                 overlap == minDist - dist
                 mx == Quot(FMul(tx, overlap), 2)
                 my == Quot(FMul(ty, overlap), 2)
                 ns1 == IF IsDragged(n1, dragged) THEN ns
                        ELSE [ns EXCEPT ![i].x = @ - mx, ![i].y = @ - my]
             IN  IF IsDragged(n2, dragged) THEN ns1
                 ELSE [ns1 EXCEPT ![j].x = @ + mx, ![j].y = @ + my]
        ELSE ns

\* the loops over i < j of one iteration, from the pair (i, j) on
RECURSIVE SeparatePairs(_, _, _, _, _)
SeparatePairs(ns, i, j, dragged, rnd) ==
    IF i > Len(ns) THEN ns
    ELSE IF j > Len(ns) THEN SeparatePairs(ns, i + 1, i + 2, dragged, rnd)
    ELSE SeparatePairs(Separate(ns, i, j, dragged, rnd), i, j + 1, dragged, rnd)

\* iterations = 2
resolveCollisions(ns, dragged, rnd) ==
    SeparatePairs(SeparatePairs(ns, 1, 2, dragged, rnd), 1, 2, dragged, rnd)

integrate(ns, ls, dragged, opts, rnd) ==
    LET forced == calculateForces(ns, ls, dragged, opts, rnd)
        moved == [i \in 1..Len(forced) |-> Advance(forced[i], dragged)]
    IN  resolveCollisions(moved, dragged, rnd)

-----------------------------------------------------------------------------
(* Rendering *)

RECURSIVE DrawLinks(_, _)
DrawLinks(ns, ls) ==
    IF ls = << >> THEN << >>
    ELSE LET link == Head(ls)
         IN  IF Has(ns, link.source) /\ Has(ns, link.target)
             THEN << [source |-> link.source, target |-> link.target,
                      x1 |-> Get(ns, link.source).x, y1 |-> Get(ns, link.source).y,
                      x2 |-> Get(ns, link.target).x, y2 |-> Get(ns, link.target).y] >>
                  \o DrawLinks(ns, Tail(ls))
             ELSE DrawLinks(ns, Tail(ls))

\* what draw() strokes and fills: the link segments, then one disk per node
\* with its label (when the disk is wider than 10 px on screen) and its
\* hover highlight
draw(ns, ls, t, hovered) ==
    [links |-> DrawLinks(ns, ls),
     nodes |-> [i \in 1..Len(ns) |->
                  [id |-> ns[i].id, x |-> ns[i].x, y |-> ns[i].y,
                   radius |-> ns[i].radius, color |-> ns[i].color,
                   label |-> IF Quot(ns[i].radius * t.k, KScale) > Px(10)
                             THEN Some(ns[i].weight) ELSE Undef,
                   highlight |-> hovered.tag = "ref" /\ hovered.id = ns[i].id]]]

-----------------------------------------------------------------------------
(* Inputs the host supplies *)

\* window.devicePixelRatio || 1
dpr == 1

Size(w, h) == [width |-> Px(w), height |-> Px(h)]
\* the size the engine is constructed with, and the sizes it is resized to
InitialSize == Size(200, 200)
Sizes == {Size(300, 200)}

\* screen positions of pointer events: on node "1" as first placed, 2.2 px
\* and exactly 5 px away from there, and far away
Points == {Pos(Px(100), Px(100)), Pos(Px(102), Px(101)),
           Pos(Px(103), Px(104)), Pos(Px(20), Px(20))}
DownPoints == {Pos(Px(100), Px(100)), Pos(Px(20), Px(20))}
MovePoints == {Pos(Px(102), Px(101)), Pos(Px(20), Px(20))}
UpPoints == Points \ {Pos(Px(100), Px(100))}

\* the screen position wheel events arrive at
WheelPoints == {Pos(Px(100), Px(100))}
\* WheelEvent.deltaY
DeltaYs == {-100, 100}

Raw(id, weight, x, y, color) ==
    [id |-> id, weight |-> weight, x |-> x, y |-> y, color |-> color]

Link(s, t) == [source |-> s, target |-> t]

\* GraphNode values the host passes: node "1" as first given and as given
\* again with another weight, position and colour; node "2" without a
\* position
Raw1 == Raw("1", 5, Some(Px(100)), Some(Px(100)), Undef)
Raw1b == Raw("1", 8, Some(Px(40)), Some(Px(40)), Some(<< "red" >>))
Raw2 == Raw("2", 3, Undef, Undef, Undef)

\* the (nodes, links) arguments of updateData; "3" is an id no node has
DataMenu ==
    { [nodes |-> << Raw1 >>, links |-> << >>],
      [nodes |-> << Raw1, Raw2 >>, links |-> << Link("1", "2") >>],
      [nodes |-> << Raw1b, Raw2 >>, links |-> << Link("1", "2"), Link("1", "3") >>],
      [nodes |-> << Raw2 >>, links |-> << Link("1", "2") >>] }

-----------------------------------------------------------------------------
(* Initial state: the fields as declared, before the constructor body runs *)

Init ==
    /\ phase = "new"
    /\ listeners = {}
    /\ options = [width |-> 0, height |-> 0, onNodeClick |-> FALSE]
    /\ canvas = [width |-> 0, height |-> 0, cursor |-> ""]
    /\ nodes = << >>
    /\ links = << >>
    /\ animationFrameId = NoFrame
    /\ transform = [x |-> 0, y |-> 0, k |-> KScale]
    /\ draggedNode = NullRef
    /\ hoveredNode = NullRef
    /\ isDraggingNode = FALSE
    /\ isPanning = FALSE
    /\ lastMousePos = Pos(0, 0)
    /\ clickStartPos = Pos(0, 0)
    /\ rafQueue = {}
    /\ rafNext = 1
    /\ drawn = [links |-> << >>, nodes |-> << >>]
    /\ clicked = << >>
    /\ pointer = NoGesture
    /\ lastOp = [op |-> "none", arg |-> << >>]
    /\ calls = 0

\* one more call or event handled
Counted == calls < MaxCalls /\ calls' = calls + 1

-----------------------------------------------------------------------------
(* The frame loop *)

\* animate() with a slip: the step runs but no next frame is requested
animateForgetsNextFrame(opts, queue, rnd) ==
    /\ nodes' = integrate(nodes, links, draggedNode, opts, rnd)
    /\ drawn' = draw(nodes', links, transform, hoveredNode)
    /\ animationFrameId' = animationFrameId
    /\ rafQueue' = queue
    /\ rafNext' = rafNext

\* animate(): one simulation step, then the next frame is requested; queue
\* is the browser's pending callbacks as animate() finds them
animate(opts, queue, rnd) ==
    /\ nodes' = integrate(nodes, links, draggedNode, opts, rnd)
    /\ drawn' = draw(nodes', links, transform, hoveredNode)
    /\ animationFrameId' = rafNext
    /\ rafQueue' = queue \cup {rafNext}
    /\ rafNext' = rafNext + 1

\* setupCanvas()
setupCanvas(opts) ==
    canvas' = [canvas EXCEPT !.width = opts.width * dpr,
                             !.height = opts.height * dpr]

\* the listeners setupInputHandlers binds (lines 218-245): six on the canvas
\* and mouseup on the window
EventTypes == {"wheel", "mousedown", "mousemove", "mouseup", "touchstart",
               "touchmove", "touchend"}

\* setupInputHandlers()
setupInputHandlers == listeners' = listeners \cup EventTypes

\* the constructor with a slip: the canvas is sized, the listeners are bound
\* and the loop is started before the context is tested
ConstructStartsFirst(opts, hasContext, rnd) ==
    /\ phase = "new"
    /\ options' = opts
    /\ lastOp' = [op |-> "construct", arg |-> << hasContext >>]
    /\ phase' = IF hasContext THEN "live" ELSE "failed"
    /\ setupCanvas(opts)
    /\ setupInputHandlers
    /\ animate(opts, rafQueue, rnd)
    /\ UNCHANGED << links, transform, draggedNode, hoveredNode,
                    isDraggingNode, isPanning, lastMousePos,
                    clickStartPos, clicked, pointer >>
    /\ UNCHANGED calls

\* new ForceGraphEngine(canvas, opts); hasContext is whether
\* canvas.getContext('2d') returns a context
Construct(opts, hasContext, rnd) ==
    /\ phase = "new"
    /\ options' = opts
    /\ lastOp' = [op |-> "construct", arg |-> << hasContext >>]
    /\ IF hasContext
       THEN /\ phase' = "live"
            /\ setupCanvas(opts)
            /\ setupInputHandlers
            /\ animate(opts, rafQueue, rnd)
            /\ UNCHANGED << links, transform, draggedNode, hoveredNode,
                            isDraggingNode, isPanning, lastMousePos,
                            clickStartPos, clicked, pointer >>
       ELSE /\ phase' = "failed"
            /\ UNCHANGED << listeners, canvas, nodes, links, animationFrameId, transform,
                            draggedNode, hoveredNode, isDraggingNode, isPanning,
                            lastMousePos, clickStartPos, rafQueue, rafNext,
                            drawn, clicked, pointer >>
    /\ UNCHANGED calls

\* the browser runs a pending frame callback
Frame(handle, rnd) ==
    /\ phase = "live"
    /\ handle \in rafQueue
    /\ animate(options, rafQueue \ {handle}, rnd)
    /\ lastOp' = [op |-> "frame", arg |-> << handle >>]
    /\ UNCHANGED << phase, listeners,
                    options, canvas, links, transform, draggedNode,
                    hoveredNode, isDraggingNode, isPanning, lastMousePos,
                    clickStartPos, clicked, pointer >>

\* start() with a slip: no test of animationFrameId
StartUnguarded(rnd) ==
    /\ phase = "live"
    /\ lastOp' = [op |-> "start", arg |-> << animationFrameId # NoFrame >>]
    /\ animate(options, rafQueue, rnd)
    /\ UNCHANGED << phase, listeners,
                    options, canvas, links, transform, draggedNode,
                    hoveredNode, isDraggingNode, isPanning, lastMousePos,
                    clickStartPos, clicked, pointer >>

\* start()
Start(rnd) ==
    /\ phase = "live"
    /\ lastOp' = [op |-> "start", arg |-> << animationFrameId # NoFrame >>]
    /\ IF animationFrameId = NoFrame
       THEN animate(options, rafQueue, rnd)
       ELSE UNCHANGED << nodes, drawn, animationFrameId, rafQueue, rafNext >>
    /\ UNCHANGED << phase, listeners,
                    options, canvas, links, transform, draggedNode,
                    hoveredNode, isDraggingNode, isPanning, lastMousePos,
                    clickStartPos, clicked, pointer >>

\* stop() with a slip: the id is forgotten but the callback is not cancelled
StopWithoutCancel ==
    /\ phase = "live"
    /\ lastOp' = [op |-> "stop", arg |-> << animationFrameId # NoFrame >>]
    /\ animationFrameId' = NoFrame
    /\ UNCHANGED << phase, listeners, options, canvas, nodes, links, transform,
                    draggedNode, hoveredNode, isDraggingNode, isPanning,
                    lastMousePos, clickStartPos, rafQueue, rafNext, drawn,
                    clicked, pointer >>

\* stop()
Stop ==
    /\ phase = "live"
    /\ lastOp' = [op |-> "stop", arg |-> << animationFrameId # NoFrame >>]
    /\ IF animationFrameId # NoFrame
       THEN /\ rafQueue' = rafQueue \ {animationFrameId}
            /\ animationFrameId' = NoFrame
       ELSE UNCHANGED << animationFrameId, rafQueue >>
    /\ UNCHANGED << phase, listeners, options, canvas, nodes, links, transform,
                    draggedNode, hoveredNode, isDraggingNode, isPanning,
                    lastMousePos, clickStartPos, rafNext, drawn, clicked,
                    pointer >>

\* resize() with a slip: the camera is put back to its initial transform
ResizeResetsCamera(size) ==
    /\ phase = "live"
    /\ lastOp' = [op |-> "resize", arg |-> << size >>]
    /\ options' = [options EXCEPT !.width = size.width, !.height = size.height]
    /\ setupCanvas(options')
    /\ transform' = [x |-> 0, y |-> 0, k |-> KScale]
    /\ UNCHANGED << phase, listeners, nodes, links, animationFrameId,
                    draggedNode, hoveredNode, isDraggingNode, isPanning,
                    lastMousePos, clickStartPos, rafQueue, rafNext, drawn,
                    clicked, pointer >>

\* resize(width, height)
Resize(size) ==
    /\ phase = "live"
    /\ lastOp' = [op |-> "resize", arg |-> << size >>]
    /\ options' = [options EXCEPT !.width = size.width, !.height = size.height]
    /\ setupCanvas(options')
    /\ UNCHANGED << phase, listeners, nodes, links, animationFrameId, transform,
                    draggedNode, hoveredNode, isDraggingNode, isPanning,
                    lastMousePos, clickStartPos, rafQueue, rafNext, drawn,
                    clicked, pointer >>

\* updateData(nodes, links)
UpdateData(data, rnd) ==
    /\ phase = "live"
    /\ lastOp' = [op |-> "updateData", arg |-> << data >>]
    /\ nodes' = MergeNodes(nodes, data.nodes, options, rnd, << >>)
    /\ links' = data.links
    /\ draggedNode' = Orphan(draggedNode, nodes)
    /\ hoveredNode' = OrphanHover(hoveredNode)
    /\ UNCHANGED << phase, listeners,
                    options, canvas, animationFrameId, transform,
                    isDraggingNode, isPanning, lastMousePos, clickStartPos,
                    rafQueue, rafNext, drawn, clicked, pointer >>

-----------------------------------------------------------------------------
(* Input handlers *)

\* the object a non-null reference points to
Deref(ref, ns) == IF ref.tag = "ref" THEN Get(ns, ref.id) ELSE ref.obj[1]

\* the fields onMove writes on the dragged object (lines 182-185)
MoveTo(node, worldPos) ==
    [node EXCEPT !.x = worldPos.x, !.y = worldPos.y, !.vx = 0, !.vy = 0]

\* the straight-line screen distance of the mouseup listener (line 226)
ClickDistance(screenPos, start) ==
    FSqrt(FMul(screenPos.x - start.x, screenPos.x - start.x)
          + FMul(screenPos.y - start.y, screenPos.y - start.y))

\* line 228: the gesture counts as a click
IsClick(screenPos) ==
    /\ isDraggingNode
    /\ draggedNode.tag # "null"
    /\ ClickDistance(screenPos, clickStartPos) < Px(5)

\* onWheel
OnWheel(pos, deltaY) ==
    /\ "wheel" \in listeners
    /\ lastOp' = [op |-> "wheel", arg |-> << pos, deltaY >>]
    /\ transform' = WheelTransform(transform, pos, deltaY)
    /\ UNCHANGED << phase, listeners,
                    options, canvas, nodes, links, animationFrameId,
                    draggedNode, hoveredNode, isDraggingNode, isPanning,
                    lastMousePos, clickStartPos, rafQueue, rafNext, drawn,
                    clicked, pointer >>

\* onDown: mousedown and touchstart
OnDown(screenPos) ==
    LET worldPos == screenToWorld(screenPos.x, screenPos.y, transform)
        node == getNodeAt(nodes, worldPos.x, worldPos.y)
    IN  /\ {"mousedown", "touchstart"} \cap listeners # {}
        /\ lastOp' = [op |-> "down", arg |-> << screenPos >>]
        /\ pointer' = [down |-> TRUE, hit |-> node, pos |-> screenPos]
        /\ clickStartPos' = screenPos
        /\ lastMousePos' = screenPos
        /\ IF node # ""
           THEN /\ draggedNode' = LiveRef(node)
                /\ isDraggingNode' = TRUE
                /\ canvas' = [canvas EXCEPT !.cursor = "grabbing"]
                /\ UNCHANGED isPanning
           ELSE /\ isPanning' = TRUE
                /\ canvas' = [canvas EXCEPT !.cursor = "move"]
                /\ UNCHANGED << draggedNode, isDraggingNode >>
        /\ UNCHANGED << phase, listeners,
                        options, nodes, links, animationFrameId,
                        transform, hoveredNode, rafQueue, rafNext, drawn,
                        clicked >>

\* onMove with a slip: while panning, the delta is measured from the
\* pointer-down position
OnMoveDeltaFromDown(screenPos) ==
    LET worldPos == screenToWorld(screenPos.x, screenPos.y, transform)
        node == getNodeAt(nodes, worldPos.x, worldPos.y)
    IN  /\ {"mousemove", "touchmove"} \cap listeners # {}
        /\ lastOp' = [op |-> "move", arg |-> << screenPos >>]
        /\ lastMousePos' = screenPos
        /\ IF isDraggingNode /\ draggedNode.tag # "null"
           THEN /\ IF draggedNode.tag = "ref"
                   THEN /\ nodes' = [nodes EXCEPT ![IndexOf(nodes, draggedNode.id)] =
                                                      MoveTo(@, worldPos)]
                        /\ UNCHANGED draggedNode
                   ELSE /\ draggedNode' = Detached(MoveTo(draggedNode.obj[1], worldPos))
                        /\ UNCHANGED nodes
                /\ UNCHANGED << transform, hoveredNode, canvas >>
           ELSE IF isPanning
           THEN /\ transform' = [transform EXCEPT
                                   !.x = @ + (screenPos.x - clickStartPos.x),
                                   !.y = @ + (screenPos.y - clickStartPos.y)]
                /\ UNCHANGED << nodes, draggedNode, hoveredNode, canvas >>
           ELSE /\ IF node # "" /\ hoveredNode = LiveRef(node)
                   THEN UNCHANGED << hoveredNode, canvas >>
                   ELSE /\ hoveredNode' = IF node # "" THEN LiveRef(node) ELSE NullRef
                        /\ canvas' = [canvas EXCEPT !.cursor =
                                         IF node # "" THEN "grab" ELSE "default"]
                /\ UNCHANGED << nodes, draggedNode, transform >>
        /\ UNCHANGED << phase, listeners, options, links, animationFrameId,
                        isDraggingNode, isPanning, clickStartPos, rafQueue,
                        rafNext, drawn, clicked, pointer >>

\* onMove: mousemove and touchmove
OnMove(screenPos) ==
    LET worldPos == screenToWorld(screenPos.x, screenPos.y, transform)
        node == getNodeAt(nodes, worldPos.x, worldPos.y)
    IN  /\ {"mousemove", "touchmove"} \cap listeners # {}
        /\ lastOp' = [op |-> "move", arg |-> << screenPos >>]
        /\ lastMousePos' = screenPos
        /\ IF isDraggingNode /\ draggedNode.tag # "null"
           THEN /\ IF draggedNode.tag = "ref"
                   THEN /\ nodes' = [nodes EXCEPT ![IndexOf(nodes, draggedNode.id)] =
                                                      MoveTo(@, worldPos)]
                        /\ UNCHANGED draggedNode
                   ELSE /\ draggedNode' = Detached(MoveTo(draggedNode.obj[1], worldPos))
                        /\ UNCHANGED nodes
                /\ UNCHANGED << transform, hoveredNode, canvas >>
           ELSE IF isPanning
           THEN /\ transform' = [transform EXCEPT
                                   !.x = @ + (screenPos.x - lastMousePos.x),
                                   !.y = @ + (screenPos.y - lastMousePos.y)]
                /\ UNCHANGED << nodes, draggedNode, hoveredNode, canvas >>
           ELSE /\ IF node # "" /\ hoveredNode = LiveRef(node)
                   THEN UNCHANGED << hoveredNode, canvas >>
                   ELSE /\ hoveredNode' = IF node # "" THEN LiveRef(node) ELSE NullRef
                        /\ canvas' = [canvas EXCEPT !.cursor =
                                         IF node # "" THEN "grab" ELSE "default"]
                /\ UNCHANGED << nodes, draggedNode, transform >>
        /\ UNCHANGED << phase, listeners,
                        options, links, animationFrameId, isDraggingNode,
                        isPanning, clickStartPos, rafQueue, rafNext, drawn,
                        clicked, pointer >>

\* the mouseup listener with a slip: the state is reset only inside the
\* click branch
MouseUpResetsOnClick(screenPos) ==
    /\ "mouseup" \in listeners
    /\ lastOp' = [op |-> "mouseup", arg |-> << screenPos, isDraggingNode, isPanning >>]
    /\ pointer' = NoGesture
    /\ IF IsClick(screenPos)
       THEN /\ clicked' = IF options.onNodeClick
                          THEN Append(clicked, Deref(draggedNode, nodes))
                          ELSE clicked
            /\ isDraggingNode' = FALSE
            /\ draggedNode' = NullRef
            /\ isPanning' = FALSE
       ELSE UNCHANGED << clicked, isDraggingNode, draggedNode, isPanning >>
    /\ canvas' = [canvas EXCEPT !.cursor = "default"]
    /\ UNCHANGED << phase, listeners,
                    options, nodes, links, animationFrameId, transform,
                    hoveredNode, lastMousePos, clickStartPos, rafQueue, rafNext,
                    drawn >>

\* the window's mouseup listener
MouseUp(screenPos) ==
    /\ "mouseup" \in listeners
    /\ lastOp' = [op |-> "mouseup", arg |-> << screenPos, isDraggingNode, isPanning >>]
    /\ pointer' = NoGesture
    /\ clicked' = IF IsClick(screenPos) /\ options.onNodeClick
                  THEN Append(clicked, Deref(draggedNode, nodes))
                  ELSE clicked
    /\ isDraggingNode' = FALSE
    /\ draggedNode' = NullRef
    /\ isPanning' = FALSE
    /\ canvas' = [canvas EXCEPT !.cursor = "default"]
    /\ UNCHANGED << phase, listeners,
                    options, nodes, links, animationFrameId, transform,
                    hoveredNode, lastMousePos, clickStartPos, rafQueue, rafNext,
                    drawn >>

\* the touchend listener with a slip: it runs the click test of the mouseup
\* listener on the last pointer position
TouchEndClicks ==
    /\ "touchend" \in listeners
    /\ lastOp' = [op |-> "touchend", arg |-> << isDraggingNode, isPanning >>]
    /\ pointer' = NoGesture
    /\ clicked' = IF IsClick(lastMousePos) /\ options.onNodeClick
                  THEN Append(clicked, Deref(draggedNode, nodes))
                  ELSE clicked
    /\ isDraggingNode' = FALSE
    /\ draggedNode' = NullRef
    /\ isPanning' = FALSE
    /\ UNCHANGED << phase, listeners, options, canvas, nodes, links,
                    animationFrameId, transform, hoveredNode, lastMousePos,
                    clickStartPos, rafQueue, rafNext, drawn >>

\* the touchend listener with a slip: only the pan is ended, the drag state
\* stays
TouchEndKeepsDrag ==
    /\ "touchend" \in listeners
    /\ lastOp' = [op |-> "touchend", arg |-> << isDraggingNode, isPanning >>]
    /\ pointer' = NoGesture
    /\ isPanning' = FALSE
    /\ UNCHANGED << phase, listeners, options, canvas, nodes, links,
                    animationFrameId, transform, draggedNode, hoveredNode,
                    isDraggingNode, lastMousePos, clickStartPos, rafQueue,
                    rafNext, drawn, clicked >>

\* the canvas's touchend listener
TouchEnd ==
    /\ "touchend" \in listeners
    /\ lastOp' = [op |-> "touchend", arg |-> << isDraggingNode, isPanning >>]
    /\ pointer' = NoGesture
    /\ isDraggingNode' = FALSE
    /\ draggedNode' = NullRef
    /\ isPanning' = FALSE
    /\ UNCHANGED << phase, listeners,
                    options, canvas, nodes, links, animationFrameId,
                    transform, hoveredNode, lastMousePos, clickStartPos,
                    rafQueue, rafNext, drawn, clicked >>

-----------------------------------------------------------------------------
(* The engine among its host: any call or event, in any order *)

Next ==
    \/ \E hasContext \in BOOLEAN, rnd \in RandPairs :
          Construct([width |-> InitialSize.width, height |-> InitialSize.height,
                     onNodeClick |-> TRUE], hasContext, rnd)
    \/ \E handle \in rafQueue, rnd \in RandPairs : Counted /\ Frame(handle, rnd)
    \/ \E rnd \in RandPairs : Counted /\ Start(rnd)
    \/ Counted /\ Stop
    \/ \E size \in Sizes : Counted /\ Resize(size)
    \/ \E data \in DataMenu, rnd \in RandPairs : Counted /\ UpdateData(data, rnd)
    \/ \E pos \in WheelPoints, deltaY \in DeltaYs : Counted /\ OnWheel(pos, deltaY)
    \/ \E pos \in DownPoints : Counted /\ OnDown(pos)
    \/ \E pos \in MovePoints : Counted /\ OnMove(pos)
    \/ \E pos \in UpPoints : Counted /\ MouseUp(pos)
    \/ Counted /\ TouchEnd

Spec == Init /\ [][Next]_vars

-----------------------------------------------------------------------------
(* The engine among its host, with the browser's promise that a requested  *)
(* animation frame callback is eventually run unless it is cancelled       *)

\* a pending frame callback runs: within Next the steps that leave a frame
\* op in lastOp are exactly the Frame steps, and one is possible exactly when
\* a callback is pending and the host has calls left
RunFrame ==
    /\ phase = "live"
    /\ calls < MaxCalls
    /\ \E handle \in rafQueue : lastOp' = [op |-> "frame", arg |-> << handle >>]

SpecLive == Init /\ [][Next]_vars /\ WF_lastOp(RunFrame)

-----------------------------------------------------------------------------
(* The camera alone: wheel events at one screen point, any number of them *)

\* the state the constructor leaves behind (its one simulation step ran on
\* an empty graph and requested the first frame)
Constructed ==
    /\ phase = "live"
    /\ listeners = EventTypes
    /\ options = [width |-> InitialSize.width, height |-> InitialSize.height,
                  onNodeClick |-> TRUE]
    /\ canvas = [width |-> InitialSize.width * dpr,
                 height |-> InitialSize.height * dpr, cursor |-> ""]
    /\ nodes = << >>
    /\ links = << >>
    /\ animationFrameId = 1
    /\ draggedNode = NullRef
    /\ hoveredNode = NullRef
    /\ isDraggingNode = FALSE
    /\ isPanning = FALSE
    /\ lastMousePos = Pos(0, 0)
    /\ clickStartPos = Pos(0, 0)
    /\ rafQueue = {1}
    /\ rafNext = 2
    /\ drawn = [links |-> << >>, nodes |-> << >>]
    /\ clicked = << >>
    /\ pointer = NoGesture
    /\ calls = 0

InitCamera ==
    /\ Constructed
    /\ transform = [x |-> 0, y |-> 0, k |-> KScale]
    /\ lastOp = [op |-> "construct", arg |-> << TRUE >>]

NextCamera ==
    \E pos \in WheelPoints, deltaY \in DeltaYs :
        OnWheel(pos, deltaY) /\ UNCHANGED calls

SpecCamera == InitCamera /\ [][NextCamera]_vars

-----------------------------------------------------------------------------
(* onWheel as a function of the camera: from camera states that wheel      *)
(* events and panning reach (SpecCamera reaches both ends of the zoom      *)
(* range; panning adds any pointer delta to x and y), wheel events at any  *)
(* of the pointer positions                                                 *)

ZoomLevels == {KScale \div 10, KScale, KScale + 331, 5 * KScale}
Pans == {Pos(0, 0), Pos(Px(-37), Px(12)), Pos(Px(250), Px(-90))}

InitZoom ==
    /\ Constructed
    /\ \E k \in ZoomLevels, pan \in Pans :
          transform = [x |-> pan.x, y |-> pan.y, k |-> k]
    /\ lastOp = [op |-> "construct", arg |-> << TRUE >>]

NextZoom ==
    \E pos \in Points, deltaY \in DeltaYs : Counted /\ OnWheel(pos, deltaY)

SpecZoom == InitZoom /\ [][NextZoom]_vars

-----------------------------------------------------------------------------
(* The simulation step on crowded graphs: the engine after construction    *)
(* and one updateData call that places node "2" on, next to, or away from  *)
(* node "1", then frames, pointer-downs and pointer-moves                   *)

\* where the host puts node "2", relative to node "1" at (100, 100), in px
Offsets == {<< 0, 0 >>, << 1, 0 >>, << 0, 3 >>, << -2, -2 >>, << 40, 0 >>}
\* the weights the host gives node "2"
Weights == {1, 8}

CrowdedMenu ==
    { [nodes |-> << Raw1, Raw("2", w, Some(Px(100 + o[1])), Some(Px(100 + o[2])),
                        Undef) >>,
       links |-> ls] :
        o \in Offsets, w \in Weights, ls \in {<< >>, << Link("1", "2") >>} }

InitPhysics ==
    /\ phase = "live"
    /\ listeners = EventTypes
    /\ options = [width |-> InitialSize.width, height |-> InitialSize.height,
                  onNodeClick |-> TRUE]
    /\ canvas = [width |-> InitialSize.width * dpr,
                 height |-> InitialSize.height * dpr, cursor |-> ""]
    /\ \E data \in CrowdedMenu :
          /\ nodes = MergeNodes(<< >>, data.nodes, options, << 0, 0 >>, << >>)
          /\ links = data.links
          /\ lastOp = [op |-> "updateData", arg |-> << data >>]
    /\ animationFrameId = 1
    /\ transform = [x |-> 0, y |-> 0, k |-> KScale]
    /\ draggedNode = NullRef
    /\ hoveredNode = NullRef
    /\ isDraggingNode = FALSE
    /\ isPanning = FALSE
    /\ lastMousePos = Pos(0, 0)
    /\ clickStartPos = Pos(0, 0)
    /\ rafQueue = {1}
    /\ rafNext = 2
    /\ drawn = [links |-> << >>, nodes |-> << >>]
    /\ clicked = << >>
    /\ pointer = NoGesture
    /\ calls = 1

NextPhysics ==
    \/ \E handle \in rafQueue, rnd \in RandPairs : Counted /\ Frame(handle, rnd)
    \/ \E pos \in DownPoints : Counted /\ OnDown(pos)
    \/ \E pos \in MovePoints : Counted /\ OnMove(pos)

SpecPhysics == InitPhysics /\ [][NextPhysics]_vars

-----------------------------------------------------------------------------
(* Properties *)

\* the nodes argument of the updateData call that was handled last
Incoming(op) == op.arg[1].nodes
IncomingIds(op) == {Incoming(op)[i].id : i \in 1..Len(Incoming(op))}

\* the step ran a simulation step (animate() requests exactly one frame)
StepRan == rafNext' # rafNext

SamePhysics(a, b) == a.x = b.x /\ a.y = b.y /\ a.vx = b.vx /\ a.vy = b.vy

\* C1: every updateData call leaves x, y, vx and vy of every node that was in
\* the node set before the call and is in the incoming list as they were
\* just before the call, whatever position the call supplies for it.
C1_PhysicsPreserved ==
    [][lastOp'.op = "updateData" =>
         \A id \in IncomingIds(lastOp') \cap Ids(nodes) :
            Has(nodes', id) /\ SamePhysics(Get(nodes', id), Get(nodes, id))]_vars

\* an updateData call was just handled that supplies the position (40, 40)
\* for node "1", which a frame had already given a velocity
C1_Witness ==
    /\ lastOp.op = "updateData"
    /\ \E i \in 1..Len(Incoming(lastOp)) : Incoming(lastOp)[i] = Raw1b
    /\ Has(nodes, "1")
    /\ Get(nodes, "1").x # Px(40)
    /\ Get(nodes, "1").vx # 0

\* C2: after every updateData call every node has the weight given in that
\* call, radius 15 + 3 * weight, and the colour generateColor gives for
\* that weight; radius and colour are never stale with respect to weight.
C2_DerivedNeverStale ==
    \A i \in 1..Len(nodes) :
        /\ nodes[i].radius = Px(15 + 3 * nodes[i].weight)
        /\ nodes[i].color = generateColor(nodes[i].weight)
        /\ lastOp.op = "updateData" =>
              \E j \in 1..Len(Incoming(lastOp)) :
                 /\ Incoming(lastOp)[j].id = nodes[i].id
                 /\ Incoming(lastOp)[j].weight = nodes[i].weight

\* C3: after updateData the node set is exactly the ids of the incoming
\* list, and a simulation step (forces, integration, collisions, draw)
\* touches only the nodes of the current set: it adds and removes none,
\* leaves an object dropped from the set (still held by draggedNode) as it
\* was, and draws exactly the current nodes and links between them.
C3_AbsentNodesGone ==
    [][/\ lastOp'.op = "updateData" => Ids(nodes') = IncomingIds(lastOp')
       /\ StepRan =>
            /\ Ids(nodes') = Ids(nodes)
            /\ draggedNode' = draggedNode
            /\ {drawn'.nodes[i].id : i \in 1..Len(drawn'.nodes)} = Ids(nodes')
            /\ Len(drawn'.nodes) = Len(nodes')
            /\ \A i \in 1..Len(drawn'.links) :
                  {drawn'.links[i].source, drawn'.links[i].target} \subseteq Ids(nodes')]_vars

\* a frame ran while draggedNode still held node "1", which the last
\* updateData had dropped from the node set
C3_Witness ==
    /\ lastOp.op = "frame"
    /\ nodes # << >>
    /\ ~Has(nodes, "1")
    /\ draggedNode.tag = "detached"
    /\ draggedNode.id = "1"

\* C4: a pointer-down that hits a node, followed by a mouse-up less than 5 px
\* from the down position, invokes onNodeClick exactly once, with the node
\* that was hit; a mouse-up 5 px or more away, or one that follows a
\* pointer-down that hit no node, does not invoke it.
C4_ClickIffHitAndNear ==
    [][(lastOp'.op = "mouseup" /\ pointer.down /\ options.onNodeClick) =>
         IF /\ pointer.hit # ""
            /\ ClickDistance(lastOp'.arg[1], pointer.pos) < Px(5)
         THEN /\ Len(clicked') = Len(clicked) + 1
              /\ SubSeq(clicked', 1, Len(clicked)) = clicked
              /\ clicked'[Len(clicked')].id = pointer.hit
         ELSE clicked' = clicked]_vars

\* C5: a pointer-move while a node is being dragged puts the node with that
\* id in the current node set at the pointer's world position and zeroes
\* its velocity, whatever happened between the pointer-down and the move.
C5_DragMovesCurrentNode ==
    [][(/\ lastOp'.op = "move"
        /\ isDraggingNode
        /\ draggedNode.tag # "null"
        /\ Has(nodes', draggedNode.id)) =>
         LET pos == lastOp'.arg[1]
             world == Pos(Quot((pos.x - transform.x) * KScale, transform.k),
                          Quot((pos.y - transform.y) * KScale, transform.k))
             node == Get(nodes', draggedNode.id)
         IN  /\ node.x = world.x
             /\ node.y = world.y
             /\ node.vx = 0
             /\ node.vy = 0]_vars

\* C6: after every mouse-up, whatever the distance moved and whatever state
\* it found, the engine is neither dragging nor panning.
C6_MouseUpClears ==
    lastOp.op = "mouseup" =>
        /\ ~isDraggingNode
        /\ draggedNode = NullRef
        /\ ~isPanning

\* a mouse-up was just handled, far from the down position, that found the
\* engine dragging and panning at once
C6_Witness ==
    /\ lastOp.op = "mouseup"
    /\ lastOp.arg[2]
    /\ lastOp.arg[3]
    /\ ClickDistance(lastOp.arg[1], clickStartPos) >= Px(5)
    /\ ~isDraggingNode
    /\ ~isPanning

\* C7: in every reachable state the camera scale lies within [0.1, 5].
C7_ScaleClamped ==
    /\ transform.k >= KScale \div 10
    /\ transform.k <= 5 * KScale

\* a wheel event that zooms in was just handled and left the scale at 5
C7_Witness ==
    /\ lastOp.op = "wheel"
    /\ lastOp.arg[2] < 0
    /\ transform.k = 5 * KScale

\* C8: for every wheel event at a screen point, the world point under that
\* screen point is the same before and after the event, also when the new
\* scale is clamped.  The two world points are compared to the resolution
\* of the arithmetic: one unit in world space plus one unit on screen.
C8_ZoomKeepsPoint ==
    [][lastOp'.op = "wheel" =>
         LET pos == lastOp'.arg[1]
             before == Pos(Quot((pos.x - transform.x) * KScale, transform.k),
                           Quot((pos.y - transform.y) * KScale, transform.k))
             after == Pos(Quot((pos.x - transform'.x) * KScale, transform'.k),
                          Quot((pos.y - transform'.y) * KScale, transform'.k))
             tolerance == 1 + KScale \div transform'.k
         IN  /\ Abs(after.x - before.x) <= tolerance
             /\ Abs(after.y - before.y) <= tolerance]_vars

\* a wheel event that zooms in was just handled with the scale held at 5,
\* at a screen point that is not the world origin
C8_Witness ==
    /\ lastOp.op = "wheel"
    /\ lastOp.arg[2] < 0
    /\ transform.k = 5 * KScale
    /\ transform.x # lastOp.arg[1].x
    /\ calls >= 2

\* C9: stop() leaves no frame callback pending, no simulation step runs
\* while the engine is stopped unless start() runs it, and stop() on a
\* stopped engine changes nothing.
C9_StopCancels ==
    [][/\ lastOp'.op = "stop" => (animationFrameId' = NoFrame /\ rafQueue' = {})
       /\ (phase = "live" /\ animationFrameId = NoFrame /\ StepRan) =>
              lastOp'.op = "start"
       /\ (lastOp'.op = "stop" /\ animationFrameId = NoFrame) =>
              UNCHANGED << engineVars, rafQueue, rafNext, drawn, clicked >>]_vars

\* stop() was just called on an engine that an earlier stop() had stopped
C9_Witness ==
    /\ lastOp = [op |-> "stop", arg |-> << FALSE >>]
    /\ animationFrameId = NoFrame
    /\ rafQueue = {}

\* C10: start() while the loop is running runs no step and schedules
\* nothing, and at most one frame callback is pending at any time.
C10_StartIdempotent ==
    [][/\ Cardinality(rafQueue') <= 1
       /\ (lastOp'.op = "start" /\ animationFrameId # NoFrame) =>
              UNCHANGED << engineVars, rafQueue, rafNext, drawn, clicked >>]_vars

\* start() was just called on a running engine, with its frame still pending
C10_Witness ==
    /\ lastOp = [op |-> "start", arg |-> << TRUE >>]
    /\ Cardinality(rafQueue) = 1
    /\ animationFrameId \in rafQueue

\* C11: when the canvas gives no 2D context the constructor fails and leaves
\* nothing of an engine behind: no listener is bound, no frame callback was
\* requested, no simulation step ran, nothing was drawn and the canvas was
\* not sized; and nothing happens afterwards.
C11_NoPartialEngine ==
    phase = "failed" =>
        /\ listeners = {}
        /\ rafQueue = {}
        /\ rafNext = 1
        /\ animationFrameId = NoFrame
        /\ drawn = [links |-> << >>, nodes |-> << >>]
        /\ canvas = [width |-> 0, height |-> 0, cursor |-> ""]
        /\ nodes = << >>
        /\ clicked = << >>
        /\ calls = 0

\* the constructor was called on a canvas without a 2D context
C11_Witness ==
    /\ phase = "failed"
    /\ lastOp = [op |-> "construct", arg |-> << FALSE >>]
    /\ options.width = InitialSize.width

\* the links whose two endpoints are both in the node set
LiveLinks(ns, ls) ==
    SelectSeq(ls, LAMBDA l : Has(ns, l.source) /\ Has(ns, l.target))

\* C12: a link with an endpoint that is not in the node set is inert: every
\* simulation step leaves the nodes exactly as the same step (same random
\* samples) without such links would, and draws one segment per link with
\* both endpoints present and nothing for the others.
C12_DanglingLinkInert ==
    [][StepRan =>
         /\ \A rnd \in RandPairs :
               integrate(nodes, links, draggedNode, options', rnd)
                 = integrate(nodes, LiveLinks(nodes, links), draggedNode,
                             options', rnd)
         /\ \E rnd \in RandPairs :
               nodes' = integrate(nodes, LiveLinks(nodes, links), draggedNode,
                                  options', rnd)
         /\ drawn' = draw(nodes', LiveLinks(nodes', links'), transform',
                          hoveredNode')
         /\ Len(drawn'.links) = Len(LiveLinks(nodes', links'))]_vars

\* a frame ran with the links 1-2 and 1-3 while the node set held "1" and
\* "2" but no "3": one segment was drawn, and node "1" moved
C12_Witness ==
    /\ lastOp.op = "frame"
    /\ links = << Link("1", "2"), Link("1", "3") >>
    /\ Has(nodes, "1")
    /\ Has(nodes, "2")
    /\ ~Has(nodes, "3")
    /\ Len(drawn.links) = 1
    /\ Get(nodes, "1").vx # 0

\* C13: resize(width, height) sets the logical width and height (and the
\* canvas backing size that follows from them) and nothing else: the camera
\* transform, the nodes, the links, the interaction state, the cursor and
\* the frame loop are as they were before the call.
C13_ResizeOnlyDimensions ==
    [][lastOp'.op = "resize" =>
         /\ options'.width = lastOp'.arg[1].width
         /\ options'.height = lastOp'.arg[1].height
         /\ options'.onNodeClick = options.onNodeClick
         /\ canvas' = [canvas EXCEPT !.width = options'.width * dpr,
                                     !.height = options'.height * dpr]
         /\ UNCHANGED << transform, nodes, links, draggedNode, hoveredNode,
                         isDraggingNode, isPanning, lastMousePos,
                         clickStartPos, animationFrameId, rafQueue, rafNext,
                         listeners, clicked >>]_vars

\* resize() was just called with a new size while a node was being dragged
\* and the camera was zoomed
C13_Witness ==
    /\ lastOp.op = "resize"
    /\ options.width # InitialSize.width
    /\ canvas.width = options.width * dpr
    /\ transform.k # KScale
    /\ isDraggingNode
    /\ draggedNode.tag = "ref"
    /\ nodes # << >>

\* C14: in every simulation step, for every node that is not the dragged
\* one, the integration phase moves the node by at most MAX_VELOCITY and
\* the node ends the step with a velocity of magnitude at most
\* MAX_VELOCITY.  Magnitudes are taken with the model's Math.sqrt, at the
\* resolution of the arithmetic.
C14_VelocityLimited ==
    [][StepRan =>
         \E rnd \in RandPairs :
            LET forced == calculateForces(nodes, links, draggedNode, options', rnd)
                moved == [i \in 1..Len(forced) |-> Advance(forced[i], draggedNode)]
            IN  /\ nodes' = resolveCollisions(moved, draggedNode, rnd)
                /\ \A i \in 1..Len(nodes) :
                      ~IsDragged(nodes[i], draggedNode) =>
                         /\ Hypot(moved[i].x - forced[i].x,
                                  moved[i].y - forced[i].y) <= Px(MAX_VELOCITY)
                         /\ Hypot(nodes'[i].vx, nodes'[i].vy)
                              <= Px(MAX_VELOCITY)]_vars

\* a frame just ran in which the limit cut a velocity on both axes: a node
\* ends the frame with nearly MAX_VELOCITY * DAMPING, moving diagonally
C14_Witness ==
    /\ lastOp.op = "frame"
    /\ \E i \in 1..Len(nodes) :
          /\ Hypot(nodes[i].vx, nodes[i].vy) >= Quot(Px(MAX_VELOCITY) * DAMPING, 100) - 25
          /\ Abs(nodes[i].vx) > Px(5)
          /\ Abs(nodes[i].vy) > Px(5)

\* C15: while a node is being dragged, no simulation step changes x, y, vx
\* or vy of the node with the dragged id in the current node set, whatever
\* frames, pointer events and updateData calls happened during the drag.
C15_DraggedNodeUntouched ==
    [][(/\ StepRan
        /\ isDraggingNode
        /\ draggedNode.tag # "null"
        /\ Has(nodes, draggedNode.id)) =>
         SamePhysics(Get(nodes', draggedNode.id), Get(nodes, draggedNode.id))]_vars

\* C16: in every reachable state the engine is in one interaction state: it
\* is never dragging a node and panning at the same time.
C16_OneInteractionState == ~(isDraggingNode /\ isPanning)

\* the nodes whose disk holds the world point under a screen position
HitIndices(ns, t, screenPos) ==
    {i \in 1..Len(ns) :
        LET dx == Quot((screenPos.x - t.x) * KScale, t.k) - ns[i].x
            dy == Quot((screenPos.y - t.y) * KScale, t.k) - ns[i].y
        IN  FMul(dx, dx) + FMul(dy, dy) <= FMul(ns[i].radius, ns[i].radius)}

\* C17: a pointer-down records its position as the click start and puts the
\* engine in DraggingNode(n), n being the last node in insertion order whose
\* disk holds the world point, or in Panning when no disk holds it.
C17_DownEntersDragOrPan ==
    [][lastOp'.op = "down" =>
         LET hit == HitIndices(nodes, transform, lastOp'.arg[1])
         IN  /\ clickStartPos' = lastOp'.arg[1]
             /\ IF hit # {}
                THEN /\ isDraggingNode'
                     /\ draggedNode' =
                          LiveRef(nodes[CHOOSE i \in hit : \A j \in hit : j <= i].id)
                     /\ ~isPanning'
                ELSE /\ isPanning'
                     /\ ~isDraggingNode'
                     /\ draggedNode' = NullRef]_vars

\* the call or event op ran animate(): a frame callback, the constructor,
\* or start() on a stopped engine
RanAnimate(op) ==
    \/ op.op = "frame"
    \/ op = [op |-> "construct", arg |-> << TRUE >>]
    \/ op = [op |-> "start", arg |-> << FALSE >>]

\* C18: every frame callback (and every other run of animate()) runs exactly
\* one simulation step, forces and integration, then collision resolution,
\* then draw of the result, and then requests exactly one next frame
\* callback, which replaces the one that ran; nothing else runs a step or
\* requests a frame; and the engine never stays started (a frame requested,
\* the host's budget of calls not used up) without a further step running:
\* it is stopped or out of budget again and again, or steps run again and
\* again.
C18_OneStepPerFrame ==
    /\ [][/\ RanAnimate(lastOp') =>
               /\ \E rnd \in RandPairs :
                     LET forced == calculateForces(nodes, links, draggedNode,
                                                   options', rnd)
                         moved == [i \in 1..Len(forced) |->
                                     Advance(forced[i], draggedNode)]
                     IN  nodes' = resolveCollisions(moved, draggedNode, rnd)
               /\ drawn' = draw(nodes', links', transform', hoveredNode')
               /\ rafNext' = rafNext + 1
               /\ animationFrameId' = rafNext
               /\ rafQueue' = (rafQueue \ (IF lastOp'.op = "frame"
                                           THEN {lastOp'.arg[1]} ELSE {}))
                                \cup {rafNext}
          /\ lastOp'.op = "frame" => lastOp'.arg[1] \in rafQueue
          /\ ~RanAnimate(lastOp') =>
               /\ rafNext' = rafNext
               /\ drawn' = drawn
               /\ rafQueue' \subseteq rafQueue]_vars
    /\ \/ []<>(animationFrameId = NoFrame \/ calls >= MaxCalls)
       \/ []<><<StepRan>>_vars

\* the third frame callback in a row just ran its step on a graph of two
\* nodes, and the fourth is requested
C18_Witness ==
    /\ lastOp.op = "frame"
    /\ rafNext >= 5
    /\ rafQueue = {rafNext - 1}
    /\ animationFrameId = rafNext - 1
    /\ Len(nodes) = 2
    /\ Len(drawn.nodes) = 2

\* C19: lastMousePos is the screen position of the previous pointer event
\* (every pointer-down and pointer-move stores its position there and
\* nothing else writes it), and a pointer-move while panning and not
\* dragging adds exactly its position minus lastMousePos to the pan,
\* leaving the scale and the nodes as they were.
C19_PanAddsDelta ==
    [][/\ lastOp'.op \in {"down", "move"} => lastMousePos' = lastOp'.arg[1]
       /\ lastOp'.op \notin {"down", "move"} => lastMousePos' = lastMousePos
       /\ (/\ lastOp'.op = "move"
           /\ isPanning
           /\ ~(isDraggingNode /\ draggedNode.tag # "null")) =>
             /\ transform'.x = transform.x + (lastOp'.arg[1].x - lastMousePos.x)
             /\ transform'.y = transform.y + (lastOp'.arg[1].y - lastMousePos.y)
             /\ transform'.k = transform.k
             /\ nodes' = nodes]_vars

\* a pointer-move while panning (and not dragging) just moved the pointer
\* away from the position of the pointer-down, over a graph with nodes: the
\* pan, zero before, is the distance moved
C19_Witness ==
    /\ lastOp.op = "move"
    /\ isPanning
    /\ ~isDraggingNode
    /\ pointer.down
    /\ lastOp.arg[1] # clickStartPos
    /\ nodes # << >>
    /\ transform.x = lastOp.arg[1].x - clickStartPos.x
    /\ transform.y = lastOp.arg[1].y - clickStartPos.y
    /\ transform.x # 0

\* C20: every touch-end leaves the engine neither dragging nor panning, with
\* draggedNode null, and does not invoke onNodeClick, however near the last
\* touch position is to the touch-start.
C20_TouchEndClearsNoClick ==
    [][lastOp'.op = "touchend" =>
         /\ ~isDraggingNode'
         /\ draggedNode' = NullRef
         /\ ~isPanning'
         /\ clicked' = clicked]_vars

\* a touch-end just ended a drag of a node whose last touch position was the
\* touch-start position (a tap): no callback was invoked
C20_Witness ==
    /\ lastOp = [op |-> "touchend", arg |-> << TRUE, FALSE >>]
    /\ lastMousePos = clickStartPos
    /\ ~isDraggingNode
    /\ draggedNode = NullRef
    /\ ~isPanning
    /\ clicked = << >>
    /\ options.onNodeClick

\* C21: a node that updateData creates for a new id starts at rest, at the
\* position the host supplies or else within 25 units of the viewport centre
\* on each axis, and has the colour the host supplies, or else the colour
\* derived from its weight.
C21_NewNodeInit ==
    [][lastOp'.op = "updateData" =>
         \A j \in 1..Len(Incoming(lastOp')) :
            LET raw == Incoming(lastOp')[j]
            IN  ~Has(nodes, raw.id) =>
                  /\ Has(nodes', raw.id)
                  /\ LET node == Get(nodes', raw.id)
                     IN  /\ node.vx = 0
                         /\ node.vy = 0
                         /\ IF raw.x = Undef
                            THEN Abs(node.x - Quot(options.width, 2)) <= Px(25)
                            ELSE node.x = raw.x[1]
                         /\ IF raw.y = Undef
                            THEN Abs(node.y - Quot(options.height, 2)) <= Px(25)
                            ELSE node.y = raw.y[1]
                         /\ node.color = IF raw.color = Undef
                                         THEN generateColor(raw.weight)
                                         ELSE raw.color[1]]_vars

\* C22: onNodeClick is invoked only by a mouse-up that ends a node drag, and
\* then once: whenever the log of invocations changes, the event is a
\* mouse-up, a pointer-down had put the engine in a drag that no mouse-up or
\* touch-end has ended yet, and exactly one invocation is added.  So a
\* mouse-up with no drag in progress, and every frame, pointer-move, wheel
\* event, touch-end and updateData call, invokes nothing.
C22_ClickOnlyByMouseUpEndingDrag ==
    [][clicked' # clicked =>
         /\ lastOp'.op = "mouseup"
         /\ isDraggingNode
         /\ draggedNode # NullRef
         /\ pointer.down
         /\ Len(clicked') = Len(clicked) + 1
         /\ SubSeq(clicked', 1, Len(clicked)) = clicked
         /\ ~isDraggingNode'
         /\ ~pointer'.down]_vars

\* a second mouse-up, again within 5 px of the click start, was just handled
\* after a mouse-up that ended a drag with a click: still one invocation
C22_Witness ==
    /\ lastOp.op = "mouseup"
    /\ ~lastOp.arg[2]
    /\ ~lastOp.arg[3]
    /\ ClickDistance(lastOp.arg[1], clickStartPos) < Px(5)
    /\ Len(clicked) = 1
    /\ Has(nodes, clicked[1].id)

====
